---- MODULE Spec2Model ----
(***************************************************************************)
(* Eudex phonetic hashing (ticki/eudex): Hash::new, the Difference         *)
(* metrics and the raw API, as a state machine over bounded inputs.        *)
(*                                                                         *)
(* A u64 is modelled as its eight byte lanes, a function 0..7 -> 0..255    *)
(* (lane 0 is the least significant byte); a u8 is a number in 0..255.     *)
(* A byte string is a sequence of numbers in 0..255; the code's 0-based    *)
(* index i is position i + 1 of the sequence.                              *)
(***************************************************************************)
EXTENDS Integers, Sequences, FiniteSets, TLC

(* ---------------- bounds of the model ---------------- *)

\* Longest string drawn over the whole Alphabet.
MaxLen == 3
\* Longest string drawn over LongAlphabet (enough letters to fill every lane).
MaxLongLen == 9

(* ---------------- u8 and u64 arithmetic ---------------- *)

Lanes == 0..7

\* Bit i of a u8.
Bit(v, i) == (v \div <<1, 2, 4, 8, 16, 32, 64, 128>>[i + 1]) % 2

\* The bitwise operators of u8, bit by bit.
And8(a, c) ==
  IF a = 0 \/ c = 0 THEN 0 ELSE
    Bit(a, 0) * Bit(c, 0)
  + Bit(a, 1) * Bit(c, 1) * 2
  + Bit(a, 2) * Bit(c, 2) * 4
  + Bit(a, 3) * Bit(c, 3) * 8
  + Bit(a, 4) * Bit(c, 4) * 16
  + Bit(a, 5) * Bit(c, 5) * 32
  + Bit(a, 6) * Bit(c, 6) * 64
  + Bit(a, 7) * Bit(c, 7) * 128

Xor8(a, c) == a + c - 2 * And8(a, c)

Or8(a, c) == a + c - And8(a, c)

Not8(a) == 255 - a

\* u8::count_ones
CountOnes8(a) ==
  Bit(a, 0) + Bit(a, 1) + Bit(a, 2) + Bit(a, 3) + Bit(a, 4) + Bit(a, 5) + Bit(a, 6) + Bit(a, 7)

\* u8::wrapping_sub
WrappingSub8(a, c) == (a + 256 - c) % 256

\* `v << 1` on a u8: the bit shifted out is lost.
Shl1_8(v) == (v * 2) % 256

\* A value below 256 widened to u64.
u64(v) == [i \in Lanes |-> IF i = 0 THEN v ELSE 0]

And64(a, c) == [i \in Lanes |-> And8(a[i], c[i])]

Or64(a, c) == [i \in Lanes |-> Or8(a[i], c[i])]

Xor64(a, c) == [i \in Lanes |-> Xor8(a[i], c[i])]

Not64(a) == [i \in Lanes |-> Not8(a[i])]

\* `w << 8` on a u64: lane 7 is shifted out.
Shl8_64(w) == [i \in Lanes |-> IF i = 0 THEN 0 ELSE w[i - 1]]

\* `w << 56` on a u64: only lane 0 survives, in lane 7.
Shl56_64(w) == [i \in Lanes |-> IF i = 7 THEN w[0] ELSE 0]

\* `(w >> (8 * i)) as u8`
LaneOf(w, i) == w[i]

(* ---------------- lib.rs: the phone tables (u64 entries) ---------------- *)

LETTERS == 26

LETTERS_C1 == 33

PHONES ==
  << u64(0),
     u64(\b01001000),
     u64(\b00001100),
     u64(\b00011000),
     u64(0),
     u64(\b01000100),
     u64(\b00001000),
     u64(\b00000100),
     u64(1),
     u64(\b00000101),
     u64(\b00001001),
     u64(\b10100000),
     u64(\b00000010),
     u64(\b00010010),
     u64(0),
     u64(\b01001001),
     u64(\b10101000),
     u64(\b10100001),
     u64(\b00010100),
     u64(\b00011101),
     u64(1),
     u64(\b01000101),
     u64(\b00000000),
     u64(\b10000100),
     u64(1),
     u64(\b10010100) >>

PHONES_C1 ==
  << Xor64(PHONES[19], u64(1)),
     u64(0),
     u64(0),
     u64(0),
     u64(0),
     u64(0),
     u64(1),
     u64(0),
     Xor64(PHONES[26], u64(1)),
     u64(1),
     u64(1),
     u64(1),
     u64(1),
     u64(1),
     u64(1),
     u64(1),
     u64(1),
     u64(\b00010101),
     u64(\b00010111),
     u64(0),
     u64(0),
     u64(0),
     u64(0),
     u64(1),
     Not64(u64(0)),
     u64(1),
     u64(1),
     u64(1),
     u64(1),
     u64(1),
     u64(1),
     u64(\b00010101),
     u64(1) >>

INJECTIVE_PHONES ==
  << u64(\b10000100),
     u64(\b00100100),
     u64(\b00000110),
     u64(\b00001100),
     u64(\b11011000),
     u64(\b00100010),
     u64(\b00000100),
     u64(\b00000010),
     u64(\b11111000),
     u64(\b00000011),
     u64(\b00000101),
     u64(\b01010000),
     u64(\b00000001),
     u64(\b00001001),
     u64(\b10010100),
     u64(\b00100101),
     u64(\b01010100),
     u64(\b01010001),
     u64(\b00001010),
     u64(\b00001110),
     u64(\b11100000),
     u64(\b00100011),
     u64(\b00000000),
     u64(\b01000010),
     u64(\b11100100),
     u64(\b01001010) >>

INJECTIVE_PHONES_C1 ==
  << Xor64(INJECTIVE_PHONES[19], u64(1)),
     Xor64(INJECTIVE_PHONES[1], u64(1)),
     Xor64(INJECTIVE_PHONES[1], u64(1)),
     u64(\b10000000),
     u64(\b10000110),
     u64(\b10100110),
     u64(\b11000010),
     u64(\b10100111),
     u64(\b01010100),
     Xor64(INJECTIVE_PHONES[5], u64(1)),
     Xor64(INJECTIVE_PHONES[5], u64(1)),
     Xor64(INJECTIVE_PHONES[5], u64(1)),
     u64(\b11000110),
     Xor64(INJECTIVE_PHONES[9], u64(1)),
     Xor64(INJECTIVE_PHONES[9], u64(1)),
     Xor64(INJECTIVE_PHONES[9], u64(1)),
     Xor64(INJECTIVE_PHONES[9], u64(1)),
     u64(\b00001011),
     u64(\b00001011),
     Xor64(INJECTIVE_PHONES[15], u64(1)),
     Xor64(INJECTIVE_PHONES[15], u64(1)),
     Xor64(INJECTIVE_PHONES[15], u64(1)),
     Xor64(INJECTIVE_PHONES[15], u64(1)),
     u64(\b11011100),
     Not64(u64(0)),
     u64(\b11011101),
     Xor64(INJECTIVE_PHONES[21], u64(1)),
     Xor64(INJECTIVE_PHONES[21], u64(1)),
     Xor64(INJECTIVE_PHONES[21], u64(1)),
     Xor64(INJECTIVE_PHONES[25], u64(1)),
     Xor64(INJECTIVE_PHONES[25], u64(1)),
     u64(\b00001011),
     Xor64(INJECTIVE_PHONES[25], u64(1)) >>

raw_PHONES ==
  << 0,
     \b01001000,
     \b00001100,
     \b00011000,
     0,
     \b01000100,
     \b00001000,
     \b00000100,
     1,
     \b00000101,
     \b00001001,
     \b10100000,
     \b00000010,
     \b00010010,
     0,
     \b01001001,
     \b10101000,
     \b10100001,
     \b00010100,
     \b00011101,
     1,
     \b01000101,
     \b00000000,
     \b10000100,
     1,
     \b10010100 >>

raw_PHONES_C1 ==
  << Xor8(raw_PHONES[19], 1),
     0,
     0,
     0,
     0,
     0,
     1,
     0,
     Xor8(raw_PHONES[26], 1),
     1,
     1,
     1,
     1,
     1,
     1,
     1,
     1,
     \b00010101,
     \b00010111,
     0,
     0,
     0,
     0,
     1,
     Not8(0),
     1,
     1,
     1,
     1,
     1,
     1,
     \b00010101,
     1 >>

raw_INJECTIVE_PHONES ==
  << \b10000100,
     \b00100100,
     \b00000110,
     \b00001100,
     \b11011000,
     \b00100010,
     \b00000100,
     \b00000010,
     \b11111000,
     \b00000011,
     \b00000101,
     \b01010000,
     \b00000001,
     \b00001001,
     \b10010100,
     \b00100101,
     \b01010100,
     \b01010001,
     \b00001010,
     \b00001110,
     \b11100000,
     \b00100011,
     \b00000000,
     \b01000010,
     \b11100100,
     \b01001010 >>

raw_INJECTIVE_PHONES_C1 ==
  << Xor8(raw_INJECTIVE_PHONES[19], 1),
     Xor8(raw_INJECTIVE_PHONES[1], 1),
     Xor8(raw_INJECTIVE_PHONES[1], 1),
     \b10000000,
     \b10000110,
     \b10100110,
     \b11000010,
     \b10100111,
     \b01010100,
     Xor8(raw_INJECTIVE_PHONES[5], 1),
     Xor8(raw_INJECTIVE_PHONES[5], 1),
     Xor8(raw_INJECTIVE_PHONES[5], 1),
     \b11000110,
     Xor8(raw_INJECTIVE_PHONES[9], 1),
     Xor8(raw_INJECTIVE_PHONES[9], 1),
     Xor8(raw_INJECTIVE_PHONES[9], 1),
     Xor8(raw_INJECTIVE_PHONES[9], 1),
     \b00001011,
     \b00001011,
     Xor8(raw_INJECTIVE_PHONES[15], 1),
     Xor8(raw_INJECTIVE_PHONES[15], 1),
     Xor8(raw_INJECTIVE_PHONES[15], 1),
     Xor8(raw_INJECTIVE_PHONES[15], 1),
     \b11011100,
     Not8(0),
     \b11011101,
     Xor8(raw_INJECTIVE_PHONES[21], 1),
     Xor8(raw_INJECTIVE_PHONES[21], 1),
     Xor8(raw_INJECTIVE_PHONES[21], 1),
     Xor8(raw_INJECTIVE_PHONES[25], 1),
     Xor8(raw_INJECTIVE_PHONES[25], 1),
     \b00001011,
     Xor8(raw_INJECTIVE_PHONES[25], 1) >>

(* ---------------- lib.rs: Hash::new ---------------- *)

\* `t[i]` on a fixed-size table: Rust checks the index and panics outside it.
Index(t, i) ==
  IF i >= 0 /\ i < Len(t) THEN [ok |-> TRUE, v |-> t[i + 1]]
                          ELSE [ok |-> FALSE, v |-> t[1]]

\* EntryOf without the case folding: `x.wrapping_sub(b'a')`.
EntryOf_NoFold(x) == WrappingSub8(x, 97)

\* EntryOf with a saturating subtraction: `(x | 32).saturating_sub(b'a')`.
EntryOf_Saturating(x) == IF Or8(x, 32) < 97 THEN 0 ELSE Or8(x, 32) - 97

\* `(x | 32).wrapping_sub(b'a')`: case folding and rebasing of one byte.
EntryOf(x) == WrappingSub8(Or8(x, 32), 97)

\* `let first_byte = { ... }`: the injective code of the first byte.
FirstByte(s) ==
  LET entry == EntryOf(IF Len(s) > 0 THEN s[1] ELSE 0)
  IN  IF entry < LETTERS
        THEN Index(INJECTIVE_PHONES, entry)
        ELSE IF entry >= \hDF /\ entry < \hFF
               THEN Index(INJECTIVE_PHONES_C1, entry - \hDF)
               ELSE [ok |-> TRUE, v |-> u64(0)]

\* The locals of Hash::new when the loop is entered.
LoopInit == [pc |-> "loop", b |-> 0, res |-> u64(0), n |-> 1]

\* LoopLookup with the code 0 in place of `continue`.
LoopLookup_NoiseAsZero(entry) ==
  IF entry < LETTERS
    THEN LET r == Index(PHONES, entry)
         IN  [kind |-> IF r.ok THEN "code" ELSE "panic", x |-> r.v]
    ELSE IF entry >= \hDF /\ entry < \hFF
           THEN LET r == Index(PHONES_C1, entry - \hDF)
                IN  [kind |-> IF r.ok THEN "code" ELSE "panic", x |-> r.v]
           ELSE [kind |-> "code", x |-> u64(0)]

\* LoopLookup with `entry <= LETTERS` in place of `entry < LETTERS`.
LoopLookup_InclusiveBound(entry) ==
  IF entry <= LETTERS
    THEN LET r == Index(PHONES, entry)
         IN  [kind |-> IF r.ok THEN "code" ELSE "panic", x |-> r.v]
    ELSE IF entry >= \hDF /\ entry < \hFF
           THEN LET r == Index(PHONES_C1, entry - \hDF)
                IN  [kind |-> IF r.ok THEN "code" ELSE "panic", x |-> r.v]
           ELSE [kind |-> "skip", x |-> u64(0)]

\* The table lookup of the loop body: found (a code), skip (`continue`) or
\* a failed bounds check.
LoopLookup(entry) ==
  IF entry < LETTERS
    THEN LET r == Index(PHONES, entry)
         IN  [kind |-> IF r.ok THEN "code" ELSE "panic", x |-> r.v]
    ELSE IF entry >= \hDF /\ entry < \hFF
           THEN LET r == Index(PHONES_C1, entry - \hDF)
                IN  [kind |-> IF r.ok THEN "code" ELSE "panic", x |-> r.v]
           ELSE [kind |-> "skip", x |-> u64(0)]

\* Collapse with the discriminant bit compared too: `res & 255 != x & 255`.
Collapse_NoMask(st, x) ==
  IF And64(st.res, u64(255)) # And64(x, u64(255))
    THEN [st EXCEPT !.res = Or64(Shl8_64(st.res), x), !.n = Shl1_8(st.n)]
    ELSE st

\* Collapse without the comparison: every code is written.
Collapse_Always(st, x) ==
  [st EXCEPT !.res = Or64(Shl8_64(st.res), x), !.n = Shl1_8(st.n)]

\* `if res & 254 != x & 254 { res <<= 8; res |= x; n <<= 1; }`
Collapse(st, x) ==
  IF And64(st.res, u64(254)) # And64(x, u64(254))
    THEN [st EXCEPT !.res = Or64(Shl8_64(st.res), x), !.n = Shl1_8(st.n)]
    ELSE st

\* One iteration of `loop { ... }`, from `b += 1` to the end of the body.
LoopIter(s, st) ==
  LET b1 == st.b + 1
      at == [st EXCEPT !.b = b1]
  IN  IF st.n = 0 \/ b1 >= Len(s)
        THEN [at EXCEPT !.pc = "ret"]
        ELSE IF b1 + 1 \notin DOMAIN s
               THEN [at EXCEPT !.pc = "panic"]
               ELSE LET entry == EntryOf(s[b1 + 1])
                    IN  IF entry <= 26
                          THEN LET l == LoopLookup(entry)
                               IN  CASE l.kind = "code"  -> Collapse(at, l.x)
                                     [] l.kind = "skip"  -> at
                                     [] l.kind = "panic" -> [at EXCEPT !.pc = "panic"]
                          ELSE at

\* `Hash { hash: res | (first_byte << 56) }`
HashOf(r, fb) == Or64(r, Shl56_64(fb))

RECURSIVE RunLoop(_, _)
\* The loop run to its exit.
RunLoop(s, st) == IF st.pc = "loop" THEN RunLoop(s, LoopIter(s, st)) ELSE st

\* Hash::new as a function of its argument.
HashNew(s) == HashOf(RunLoop(s, LoopInit).res, FirstByte(s).v)

(* ---------------- lib.rs: Difference ---------------- *)

\* Sub as an arithmetic difference: `self.hash.wrapping_sub(rhs.hash)`.
Sub_Wrapping(self, rhs) ==
  LET borrow[i \in Lanes] ==
        IF i = 0 THEN 0
        ELSE IF self[i - 1] - rhs[i - 1] - borrow[i - 1] < 0 THEN 1 ELSE 0
  IN  [i \in Lanes |-> (self[i] - rhs[i] - borrow[i] + 512) % 256]

\* impl ops::Sub for Hash: `xor: self.hash ^ rhs.hash`
Sub(self, rhs) == Xor64(self, rhs)

\* dist without the weights: the flat Hamming distance.
Dist_Hamming(x) ==
    CountOnes8(LaneOf(x, 0))
  + CountOnes8(LaneOf(x, 1))
  + CountOnes8(LaneOf(x, 2))
  + CountOnes8(LaneOf(x, 3))
  + CountOnes8(LaneOf(x, 4))
  + CountOnes8(LaneOf(x, 5))
  + CountOnes8(LaneOf(x, 6))
  + CountOnes8(LaneOf(x, 7))

\* Difference::dist
Dist(x) ==
    CountOnes8(LaneOf(x, 0))
  + CountOnes8(LaneOf(x, 1)) * 2
  + CountOnes8(LaneOf(x, 2)) * 4
  + CountOnes8(LaneOf(x, 3)) * 8
  + CountOnes8(LaneOf(x, 4)) * 16
  + CountOnes8(LaneOf(x, 5)) * 32
  + CountOnes8(LaneOf(x, 6)) * 64
  + CountOnes8(LaneOf(x, 7)) * 128

\* Difference::xor
XorOf(x) == x

\* similar on the raw XOR magnitude instead of dist(): `self.xor < 10`.
SimilarOf_RawXor(x) == (\A i \in 1..7 : LaneOf(x, i) = 0) /\ LaneOf(x, 0) < 10

\* Difference::similar
SimilarOf(x) == Dist(x) < 10

(* ---------------- raw.rs: map_first and filter ---------------- *)

\* Option<u8>
None == [some |-> FALSE, v |-> 0]

Some(c) == [some |-> TRUE, v |-> c]

\* raw::map_first
map_first(x0) ==
  LET x == WrappingSub8(Or8(x0, 32), 97)
  IN  IF x < LETTERS
        THEN Index(raw_INJECTIVE_PHONES, x)
        ELSE IF x >= \hDF /\ x < \hFF
               THEN Index(raw_INJECTIVE_PHONES_C1, x - \hDF)
               ELSE [ok |-> TRUE, v |-> 0]

\* raw::filter
filter(prev, x0) ==
  LET x == WrappingSub8(Or8(x0, 32), 97)
      l == IF x < LETTERS
             THEN Index(raw_PHONES, x)
             ELSE IF x >= \hDF /\ x < \hFF
                    THEN Index(raw_PHONES_C1, x - \hDF)
                    ELSE [ok |-> TRUE, v |-> 256]
  IN  IF ~l.ok THEN [ok |-> FALSE, v |-> None]
      ELSE IF l.v = 256 THEN [ok |-> TRUE, v |-> None]
      ELSE IF And8(l.v, 1) # And8(prev, 1)
             THEN [ok |-> TRUE, v |-> Some(l.v)]
             ELSE [ok |-> TRUE, v |-> None]

(* ---------------- the inputs ---------------- *)

\* Byte strings as sequences of byte values.
RECURSIVE StringsUpTo(_, _)
StringsUpTo(A, k) ==
  IF k = 0 THEN {<< >>}
  ELSE LET shorter == StringsUpTo(A, k - 1)
       IN  shorter \cup {Append(s, c) : s \in {t \in shorter : Len(t) = k - 1}, c \in A}

\* 'A' 'a' 'b' 'i' 'r'  '-' '@' '{'  0xE7
Alphabet == {65, 97, 98, 105, 114, 45, 64, 123, \hE7}

\* 'a' 'r'
LongAlphabet == {97, 114}

s_computer == <<99, 111, 109, 112, 117, 116, 101, 114>>

s_comp_uter == <<99, 111, 109, 112, 45, 117, 116, 101, 114>>

s_comp_noise == <<99, 111, 109, 112, 64, 117, 35, 116, 101, 63, 114>>

s_rrr == <<114, 114, 114>>

s_raaaa == <<114, 97, 97, 97, 97>>

s_rr == <<114, 114>>

s_r == <<114>>

s_a == <<97>>

s_b == <<98>>

s_abr == <<97, 98, 114>>

s_abi == <<97, 98, 105>>

s_java == <<106, 97, 118, 97>>

s_jiva == <<106, 105, 118, 97>>

s_riiiindom == <<114, 105, 105, 105, 105, 110, 100, 111, 109>>

s_ryyyyyndom == <<114, 121, 121, 121, 121, 121, 110, 100, 111, 109>>

s_ndom_r == <<114, 110, 100, 111, 109>>

s_what == <<119, 104, 97, 116>>

s_wat == <<119, 97, 116>>

s_youtube == <<121, 111, 117, 116, 117, 98, 101>>

s_reddit == <<114, 101, 100, 100, 105, 116>>

s_abpa == <<97, 98, 112, 97>>

s_aba == <<97, 98, 97>>

s_rupirt == <<114, 117, 112, 105, 114, 116>>

s_ropert == <<114, 111, 112, 101, 114, 116>>

s_ripert == <<114, 105, 112, 101, 114, 116>>

s_ropyrt == <<114, 111, 112, 121, 114, 116>>

\* Strings of the repository's tests and documentation.
TestStrings ==
  {s_computer, s_comp_uter, s_comp_noise, s_rrr, s_raaaa, s_abr,
   s_java, s_jiva, s_riiiindom, s_ryyyyyndom,
   s_rupirt, s_ropert, s_ripert, s_ropyrt, s_what, s_youtube, s_abpa}

Strings ==
  StringsUpTo(Alphabet, MaxLen) \cup StringsUpTo(LongAlphabet, MaxLongLen) \cup TestStrings

\* Right-hand sides of `Hash::new(a) - Hash::new(b)`.
Others == {<< >>, s_b, s_abi}

\* Pairs of strings the repository's tests compare.
TestPairs == {<<s_what, s_wat>>, <<s_youtube, s_reddit>>}

\* The strings subtracted from the hash of s: the fixed right-hand sides,
\* s itself and the partners of s in the tests.
RightHandSides(s) ==
  Others \cup {s} \cup {p[2] : p \in {q \in TestPairs : q[1] = s}}

\* The hashes of the right-hand sides.
HashOfOther == [o \in Others |-> HashNew(o)]

\* Hash::new of a right-hand side.
HashOfRhs(o) == IF o \in Others THEN HashOfOther[o] ELSE HashNew(o)

\* Previously written codes handed to raw::filter.
Prevs == {0, 1, \b10100001, \b01001000}

(* ---------------- the state machine ---------------- *)

VARIABLES
  string,      \* the argument of Hash::new
  pc,          \* where the caller is
  b,           \* Hash::new: index of the current byte
  first_byte,  \* Hash::new: injective code of the first byte
  res,         \* Hash::new: the accumulator
  n,           \* Hash::new: one-hot count of the codes written
  hash,        \* Hash.hash, the value returned by Hash::new
  other,       \* the string whose hash is subtracted
  xor,         \* Difference.xor
  dist,        \* value returned by Difference::dist
  similar,     \* value returned by Difference::similar
  raw_x,       \* byte handed to the raw API
  raw_prev,    \* previous code handed to raw::filter
  raw_first,   \* value returned by raw::map_first
  raw_filter   \* value returned by raw::filter

vars == <<string, pc, b, first_byte, res, n, hash, other, xor, dist, similar,
          raw_x, raw_prev, raw_first, raw_filter>>

hashVars == <<b, first_byte, res, n, hash>>

diffVars == <<other, xor, dist, similar>>

rawVars == <<raw_first, raw_filter>>

Init ==
  /\ b = 0
  /\ first_byte = u64(0)
  /\ res = u64(0)
  /\ n = 1
  /\ hash = u64(0)
  /\ other = << >>
  /\ xor = u64(0)
  /\ dist = 0
  /\ similar = FALSE
  /\ raw_first = 0
  /\ raw_filter = None
  /\ \/ /\ pc = "new"
        /\ string \in Strings
        /\ raw_x = 0
        /\ raw_prev = 0
     \/ /\ pc = "raw"
        /\ string = << >>
        /\ raw_x \in Alphabet
        /\ raw_prev \in Prevs

\* Hash::new up to the loop: the first byte's code and the locals.
New ==
  /\ pc = "new"
  /\ LET fb == FirstByte(string)
     IN  /\ first_byte' = fb.v
         /\ pc' = IF fb.ok THEN LoopInit.pc ELSE "panic"
  /\ b' = LoopInit.b
  /\ res' = LoopInit.res
  /\ n' = LoopInit.n
  /\ UNCHANGED <<string, hash, diffVars, raw_x, raw_prev, rawVars>>

\* One iteration of the loop of Hash::new.
Loop ==
  /\ pc = "loop"
  /\ LET st == LoopIter(string, [pc |-> pc, b |-> b, res |-> res, n |-> n])
     IN  /\ pc' = st.pc
         /\ b' = st.b
         /\ res' = st.res
         /\ n' = st.n
  /\ UNCHANGED <<string, first_byte, hash, diffVars, raw_x, raw_prev, rawVars>>

\* Hash::new returns the Hash.
Return ==
  /\ pc = "ret"
  /\ hash' = HashOf(res, first_byte)
  /\ pc' = "done"
  /\ UNCHANGED <<string, b, first_byte, res, n, diffVars, raw_x, raw_prev, rawVars>>

\* `Hash::new(string) - Hash::new(o)`
Subtract ==
  /\ pc = "done"
  /\ \E o \in RightHandSides(string) :
       /\ other' = o
       /\ xor' = Sub(hash, HashOfRhs(o))
  /\ pc' = "sub"
  /\ UNCHANGED <<string, hashVars, dist, similar, raw_x, raw_prev, rawVars>>

\* `.dist()` on the difference
CallDist ==
  /\ pc = "sub"
  /\ dist' = Dist(xor)
  /\ pc' = "dist"
  /\ UNCHANGED <<string, hashVars, other, xor, similar, raw_x, raw_prev, rawVars>>

\* `.similar()` on the difference
CallSimilar ==
  /\ pc = "dist"
  /\ similar' = SimilarOf(xor)
  /\ pc' = "similar"
  /\ UNCHANGED <<string, hashVars, other, xor, dist, raw_x, raw_prev, rawVars>>

\* `raw::map_first(raw_x)`
CallMapFirst ==
  /\ pc = "raw"
  /\ LET r == map_first(raw_x)
     IN  /\ raw_first' = r.v
         /\ pc' = IF r.ok THEN "map_first" ELSE "panic"
  /\ UNCHANGED <<string, hashVars, diffVars, raw_x, raw_prev, raw_filter>>

\* `raw::filter(raw_prev, raw_x)`
CallFilter ==
  /\ pc = "map_first"
  /\ LET r == filter(raw_prev, raw_x)
     IN  /\ raw_filter' = r.v
         /\ pc' = IF r.ok THEN "filter" ELSE "panic"
  /\ UNCHANGED <<string, hashVars, diffVars, raw_x, raw_prev, raw_first>>

Next ==
  \/ New
  \/ Loop
  \/ Return
  \/ Subtract
  \/ CallDist
  \/ CallSimilar
  \/ CallMapFirst
  \/ CallFilter

Spec == Init /\ [][Next]_vars

TypeOK ==
  /\ pc \in {"new", "loop", "ret", "done", "sub", "dist", "similar",
             "raw", "map_first", "filter", "panic"}
  /\ n \in 0..255
  /\ res \in [Lanes -> 0..255]
  /\ hash \in [Lanes -> 0..255]
  /\ xor \in [Lanes -> 0..255]

(* ---------------- vocabulary of the properties ---------------- *)

IsAsciiUpper(c) == c \in 65..90

IsAsciiLower(c) == c \in 97..122

IsAsciiLetter(c) == IsAsciiUpper(c) \/ IsAsciiLower(c)

\* ASCII upper-casing and lower-casing of a byte string.
Uppercase(s) == [i \in DOMAIN s |-> IF IsAsciiLower(s[i]) THEN s[i] - 32 ELSE s[i]]

Lowercase(s) == [i \in DOMAIN s |-> IF IsAsciiUpper(s[i]) THEN s[i] + 32 ELSE s[i]]

\* s without its position i (1-based).
RemoveAt(s, i) == SubSeq(s, 1, i - 1) \o SubSeq(s, i + 1, Len(s))

\* The number of codes the loop has written, read off the one-hot counter n
\* (n = 0 once the bit has been shifted out of the u8).
CodesWritten ==
  CASE n = 1 -> 0 [] n = 2 -> 1 [] n = 4 -> 2 [] n = 8 -> 3 [] n = 16 -> 4
    [] n = 32 -> 5 [] n = 64 -> 6 [] n = 128 -> 7 [] n = 0 -> 8

\* A byte the tables of Hash::new map to a code, as the code decides it.
InDomain(c) ==
  LET entry == EntryOf(c)
  IN  entry < LETTERS \/ (entry >= \hDF /\ entry < \hFF)

(* ---------------- C1 ---------------- *)

\* C1: when Hash::new has returned, lane 7 of the hash is exactly the
\* injective code of the first byte, however many codes the loop wrote.
C1_Lane7IsFirstCode ==
  pc = "done" => LaneOf(hash, 7) = LaneOf(first_byte, 0)

(* ---------------- C2 ---------------- *)

\* C2: the loop of Hash::new writes at most 7 codes: in every state the
\* number of codes written is in 0..7.
C2_AtMostSevenCodes ==
  CodesWritten \in 0..7

(* ---------------- C3 ---------------- *)

\* C3: case insensitivity: the hash Hash::new returns for a string equals
\* the hash of the string with every ASCII letter upper-cased, and the hash
\* of the string with every ASCII letter lower-cased.
C3_CaseInsensitive ==
  pc = "done" =>
    /\ hash = HashNew(Uppercase(string))
    /\ hash = HashNew(Lowercase(string))

\* Hash::new has returned on a string of mixed case that holds letters.
C3_Witness ==
  /\ pc = "done"
  /\ Uppercase(string) # string
  /\ Lowercase(string) # string
  /\ hash # u64(0)

(* ---------------- C4 ---------------- *)

C5_LeadingNoiseSkipped ==
  (pc = "done" /\ string # << >> /\ ~InDomain(string[1])) =>
    hash = HashNew(Tail(string))

\* C5, amended: out-of-domain bytes after the first byte do not affect the
\* hash; an out-of-domain first byte is not skipped but encoded as the
\* first-byte code 0, so that any two out-of-domain first bytes give the
\* same hash.
C5_NoiseSkippedAfterFirst ==
  (pc = "done" /\ string # << >>) =>
    /\ hash = HashNew(<<string[1]>> \o SelectSeq(Tail(string), InDomain))
    /\ ~InDomain(string[1]) =>
         /\ first_byte = u64(0)
         /\ \A c \in Alphabet :
              ~InDomain(c) => hash = HashNew(<<c>> \o Tail(string))

\* Hash::new has returned on a string that starts with an out-of-domain
\* byte followed by a letter, and the hash is not the hash of the rest.
C5_Witness ==
  /\ pc = "done"
  /\ Len(string) >= 2
  /\ ~InDomain(string[1])
  /\ InDomain(string[2])
  /\ hash # HashNew(Tail(string))

(* ---------------- C6 ---------------- *)

Latin1 == \hDF..\hFF

\* C6: for a byte between 0xDF and 0xFF, Hash::new's first-byte lookup,
\* raw::map_first and raw::filter return the entry of the Latin-1 table at
\* index byte - 0xDF.
C6_Latin1Mapped ==
  /\ (pc \in {"loop", "ret", "done"} /\ string # << >> /\ string[1] \in Latin1) =>
       first_byte = INJECTIVE_PHONES_C1[string[1] - \hDF + 1]
  /\ (pc \in {"map_first", "filter"} /\ raw_x \in Latin1) =>
       raw_first = raw_INJECTIVE_PHONES_C1[raw_x - \hDF + 1]
  /\ (pc = "filter" /\ raw_x \in Latin1 /\ raw_filter.some) =>
       raw_filter.v = raw_PHONES_C1[raw_x - \hDF + 1]

(* ---------------- C7 ---------------- *)

\* C7 as stated: the hash of "rrr" is the hash of "raaaa".
C7_RrrEqualsRaaaa ==
  (pc = "done" /\ string = s_rrr) => hash = HashNew(s_raaaa)

\* C7, amended: "rrr" hashes as "rr" (the repeated consonant is written
\* once) and "raaaa" hashes as "r" (the vowels after the first letter are
\* dropped), and the hashes of "rrr" and "raaaa" differ.
C7_DuplicateCollapse ==
  pc = "done" =>
    /\ string = s_rrr => (hash = HashNew(s_rr) /\ hash # HashNew(s_raaaa))
    /\ string = s_raaaa => hash = HashNew(s_r)

\* Hash::new has returned on "rrr".
C7_Witness ==
  /\ pc = "done"
  /\ string = s_rrr
  /\ LaneOf(hash, 0) = \b10100001

(* ---------------- C8 ---------------- *)

\* C8: commutativity: the xor and the dist of Hash::new(string) -
\* Hash::new(other) equal those of Hash::new(other) - Hash::new(string).
C8_Commutative ==
  /\ pc \in {"sub", "dist", "similar"} =>
       XorOf(xor) = XorOf(Sub(HashNew(other), hash))
  /\ pc \in {"dist", "similar"} =>
       dist = Dist(Sub(HashNew(other), hash))

\* dist() has been called on the difference of two different hashes.
C8_Witness ==
  /\ pc = "dist"
  /\ hash # HashNew(other)
  /\ dist > 0

(* ---------------- C9 ---------------- *)

\* A difference that holds the pattern p in lane i alone.
OnlyLane(i, p) == [j \in Lanes |-> IF j = i THEN p ELSE 0]

\* The difference x is non-zero in lane i alone.
ConfinedTo(x, i) == x[i] # 0 /\ \A j \in Lanes \ {i} : x[j] = 0

\* What dist() adds for one set bit in each lane.
LaneWeights == [i \in Lanes |-> Dist(OnlyLane(i, 1))]

LaneWeight(i) == LaneWeights[i]

RECURSIVE WeightedSum(_, _)
\* The sum over lanes 0..i of popcount(lane) * weight(lane).
WeightedSum(x, i) ==
  IF i < 0 THEN 0 ELSE CountOnes8(x[i]) * LaneWeight(i) + WeightedSum(x, i - 1)

\* C9: weight ordering: dist() is the sum over the lanes of popcount times
\* a weight that strictly increases with the lane, so a pattern in lane 7
\* alone is strictly farther than the same pattern in a lower lane alone.
C9_WeightOrdering ==
  pc \in {"dist", "similar"} =>
    /\ dist = WeightedSum(xor, 7)
    /\ \A i, j \in Lanes : i < j => LaneWeight(i) < LaneWeight(j)
    /\ \A i \in 0..6 :
         ConfinedTo(xor, i) => dist < Dist(OnlyLane(7, xor[i]))
    /\ ConfinedTo(xor, 7) =>
         \A i \in 0..6 : dist > Dist(OnlyLane(i, xor[7]))

\* dist() has been called on a difference confined to the first-letter lane.
C9_Witness ==
  /\ pc = "dist"
  /\ ConfinedTo(xor, 7)
  /\ dist >= 128

(* ---------------- C10 ---------------- *)

\* C10: Hash::new is total: no index leaves its bounds, the loop has made
\* at most len(string) iterations (one for the empty string, which only
\* breaks), and the hash of the empty string is 0.
C10_Total ==
  /\ pc # "panic"
  /\ pc = "loop" => (b = 0 \/ b < Len(string))
  /\ b <= (IF Len(string) = 0 THEN 1 ELSE Len(string))
  /\ (pc = "done" /\ string = << >>) => hash = u64(0)

\* Hash::new has returned after its loop consumed a string longer than the
\* short ones down to the last byte.
C10_Witness ==
  /\ pc = "done"
  /\ Len(string) > MaxLen
  /\ b = Len(string)

(* ---------------- C11 ---------------- *)

\* The letters a, e, i, o, u, y, w in either case.
IsFeatureless(c) == c \in {97, 101, 105, 111, 117, 121, 119, 65, 69, 73, 79, 85, 89, 87}

C12_VowelClassChangesHash ==
  pc = "done" =>
    /\ string = s_jiva => hash # HashNew(s_java)
    /\ string = s_rupirt => hash # HashNew(s_ropert)
    /\ string = s_ripert => hash # HashNew(s_ropyrt)

(* ---------------- C13 ---------------- *)

\* C13: similar() holds exactly when dist() is below 10; a string is
\* similar to itself, "what" is similar to "wat" and "youtube" is not
\* similar to "reddit".
C13_SimilarIsDistBelowTen ==
  pc = "similar" =>
    /\ similar <=> dist < 10
    /\ other = string => similar
    /\ (string = s_what /\ other = s_wat) => similar
    /\ (string = s_youtube /\ other = s_reddit) => ~similar

\* similar() has answered TRUE on "what" against "wat", whose hashes differ.
C13_Witness ==
  /\ pc = "similar"
  /\ string = s_what
  /\ other = s_wat
  /\ dist > 0
  /\ similar

(* ---------------- C14 ---------------- *)

\* The feature bits (bits 1-7) of the phone code of an ASCII letter, read
\* from the table by the letter's place in the alphabet.
FeatureBits(c) ==
  And8(PHONES[(IF IsAsciiUpper(c) THEN c - 65 ELSE c - 97) + 1][0], 254)

\* C14: collapse of repeats: a run of ASCII letters that directly follows a
\* letter at a position after the first and has the feature bits of that
\* letter can be taken out of the string without changing the hash.
C14_RepeatsCollapse ==
  pc = "done" =>
    \A i \in 2..Len(string) : \A k \in (i + 1)..Len(string) :
      ( /\ IsAsciiLetter(string[i])
        /\ \A j \in (i + 1)..k :
             /\ IsAsciiLetter(string[j])
             /\ FeatureBits(string[j]) = FeatureBits(string[i]) ) =>
        hash = HashNew(SubSeq(string, 1, i) \o SubSeq(string, k + 1, Len(string)))

\* Hash::new has returned on "abpa": p has the feature bits of the b before
\* it and another discriminant, and the hash is the one of "aba", with the
\* code of b in lane 1.
C14_Witness ==
  /\ pc = "done"
  /\ string = s_abpa
  /\ hash = HashNew(s_aba)
  /\ LaneOf(hash, 1) = \b01001000

(* ---------------- C15 ---------------- *)

\* The locals of Hash::new after one iteration of its loop on the byte x,
\* entered with prev in the lowest lane of the accumulator.
LoopOn(prev, x) == LoopIter(<<x, x>>, [LoopInit EXCEPT !.res = u64(prev)])

\* C15: the raw API steps the encoder of Hash::new: map_first returns the
\* first-byte code Hash::new computes, and filter(prev, x) returns Some(code)
\* exactly when the loop of Hash::new, with prev in its lowest lane, writes
\* that code for x, and None exactly when the loop skips x.
C15_RawStepsSameEncoder ==
  /\ pc \in {"map_first", "filter"} =>
       raw_first = LaneOf(FirstByte(<<raw_x>>).v, 0)
  /\ pc = "filter" =>
       raw_filter = IF LoopOn(raw_prev, raw_x).n # LoopInit.n
                      THEN Some(LaneOf(LoopOn(raw_prev, raw_x).res, 0))
                      ELSE None

====
